---- MODULE Spec2Model ----
(***************************************************************************)
(* Model of the Reversi rules engine (src/src/board.rs, src/src/lib.rs)    *)
(* and of the exact solver (src/src/solve.rs).                             *)
(*                                                                         *)
(* A Game is the record [board, current_player]; the board is a function   *)
(* from the linear index x + y*WIDTH to a Cell.  Cell::Empty is "Empty",   *)
(* Cell::Player(Player::One) is "One", Cell::Player(Player::Two) is "Two". *)
(* Option<T> is [some |-> FALSE] or [some |-> TRUE, val |-> v];            *)
(* Result<T> is [ok |-> FALSE] or [ok |-> TRUE, val |-> v].                *)
(***************************************************************************)
EXTENDS Integers, Sequences, FiniteSets, TLC

VARIABLES board, current_player, op, arg, ok, ret, pre, plays

vars == <<board, current_player, op, arg, ok, ret, pre, plays>>

(***************************************************************************)
(* Bounds of the model.                                                    *)
(***************************************************************************)
\* successful plays explored from a starting position
MaxPlays == 2
\* cells of a solver input that are left open (Empty, One or Two)
NFree == 4

\* the greatest number of plays before a text is parsed
MaxParsePlays == 1

\* how far beyond the last column and the last row the coordinates handed to
\* play go
CoordOver == 3

\* insertions explored from each starting board of the command line game
MaxIns == 3

(***************************************************************************)
(* board.rs                                                                *)
(***************************************************************************)
WIDTH == 8
HEIGHT == 8
SIZE == WIDTH * HEIGHT

Players == {"One", "Two"}
Cells == {"Empty"} \cup Players
Indices == 0 .. (SIZE - 1)

opponent(p) == IF p = "One" THEN "Two" ELSE "One"

at_pos(x, y) == x + y * WIDTH

Board_new == [i \in Indices |-> "Empty"]

total_moves(b) == Cardinality({i \in Indices : b[i] # "Empty"})

get_cell(b, x, y) == b[at_pos(x, y)]

set_cell(b, x, y, cell) == [b EXCEPT ![at_pos(x, y)] = cell]

set_cell_idx(b, idx, cell) == [b EXCEPT ![idx] = cell]

get_cell_idx(b, idx) == b[idx]

on_board(x, y) == x < WIDTH /\ y < HEIGHT

(***************************************************************************)
(* usize arithmetic.  TLC's integers are 32 bits wide, so the word is      *)
(* modelled with 16 bits: coordinates handed to the helpers below are on   *)
(* the board and move by one step, so a wrapped value is the word's        *)
(* maximum in either width and on_board rejects it.                        *)
(***************************************************************************)
USIZE_MOD == 2 ^ 16

wrapping_add_signed(a, d) == (a + d) % USIZE_MOD

None == [some |-> FALSE]
Some(v) == [some |-> TRUE, val |-> v]

checked_add_signed(a, d) ==
    IF a + d < 0 \/ a + d >= USIZE_MOD THEN None ELSE Some(a + d)

Err == [ok |-> FALSE]
Ok(v) == [ok |-> TRUE, val |-> v]

\* the index pushed in place of a flip when the backward walk panics
Panic == -1

Range(s) == {s[k] : k \in 1 .. Len(s)}

(***************************************************************************)
(* lib.rs: the rules engine                                                *)
(***************************************************************************)
directions ==
    << <<0, 1>>, <<1, 1>>, <<1, 0>>, <<1, -1>>,
       <<0, -1>>, <<-1, -1>>, <<-1, 0>>, <<-1, 1>> >>

\* the `while` loop of is_valid_move: walk over the opponent's run and give
\* the cell the walk stops at (on the board or not)
RECURSIVE walk_run(_, _, _, _, _, _)
walk_run(b, opposing_tile, x, y, x_dir, y_dir) ==
    IF get_cell(b, x, y) = opposing_tile
    THEN LET nx == wrapping_add_signed(x, x_dir)
             ny == wrapping_add_signed(y, y_dir)
         IN  IF ~on_board(nx, ny)
             THEN <<nx, ny>>
             ELSE walk_run(b, opposing_tile, nx, ny, x_dir, y_dir)
    ELSE <<x, y>>

\* mutant of backtrack: the walk steps on in the direction of the scan
\* instead of back
RECURSIVE backtrack_forward(_, _, _, _, _, _)
backtrack_forward(x, y, x_init, y_init, x_dir, y_dir) ==
    LET cx == checked_add_signed(x, x_dir)
        cy == checked_add_signed(y, y_dir)
    IN  IF ~cx.some \/ ~cy.some
        THEN <<Panic>>
        ELSE IF cx.val = x_init /\ cy.val = y_init
        THEN <<>>
        ELSE IF ~on_board(cx.val, cy.val)
        THEN <<Panic>>
        ELSE <<at_pos(cx.val, cy.val)>>
                 \o backtrack_forward(cx.val, cy.val, x_init, y_init, x_dir, y_dir)

\* the `loop` of is_valid_move: step back to the start cell and push every
\* cell passed; a failed unwrap, or a step that leaves the board, is a panic
RECURSIVE backtrack(_, _, _, _, _, _)
backtrack(x, y, x_init, y_init, x_dir, y_dir) ==
    LET cx == checked_add_signed(x, -x_dir)
        cy == checked_add_signed(y, -y_dir)
    IN  IF ~cx.some \/ ~cy.some
        THEN <<Panic>>
        ELSE IF cx.val = x_init /\ cy.val = y_init
        THEN <<>>
        ELSE IF ~on_board(cx.val, cy.val)
        THEN <<Panic>>
        ELSE <<at_pos(cx.val, cy.val)>>
                 \o backtrack(cx.val, cy.val, x_init, y_init, x_dir, y_dir)

\* the cells the `while` loop of is_valid_move reads through get_cell, in
\* the order it reads them
RECURSIVE walk_reads(_, _, _, _, _, _)
walk_reads(b, opposing_tile, x, y, x_dir, y_dir) ==
    <<<<x, y>>>> \o
        (IF get_cell(b, x, y) = opposing_tile
         THEN LET nx == wrapping_add_signed(x, x_dir)
                  ny == wrapping_add_signed(y, y_dir)
              IN  IF ~on_board(nx, ny)
                  THEN <<>>
                  ELSE walk_reads(b, opposing_tile, nx, ny, x_dir, y_dir)
         ELSE <<>>)

\* the coordinates one iteration of `for (x_dir, y_dir) in directions` hands
\* to get_cell: the neighbour, the cells of the `while` loop, and the cell
\* the loop stopped at when it is compared with the current player
dir_reads(g, x_init, y_init, x_dir, y_dir) ==
    LET b == g.board
        opposing_tile == opponent(g.current_player)
        x1 == wrapping_add_signed(x_init, x_dir)
        y1 == wrapping_add_signed(y_init, y_dir)
        x2 == wrapping_add_signed(x1, x_dir)
        y2 == wrapping_add_signed(y1, y_dir)
    IN  IF ~on_board(x1, y1)
        THEN <<>>
        ELSE IF get_cell(b, x1, y1) # opposing_tile
        THEN <<<<x1, y1>>>>
        ELSE IF ~on_board(x2, y2)
        THEN <<<<x1, y1>>>>
        ELSE LET e == walk_run(b, opposing_tile, x2, y2, x_dir, y_dir)
             IN  <<<<x1, y1>>>>
                     \o walk_reads(b, opposing_tile, x2, y2, x_dir, y_dir)
                     \o (IF on_board(e[1], e[2]) THEN <<e>> ELSE <<>>)

\* mutant of dir_flips: the cell that ends the run is not required to be the
\* current player's
dir_flips_open(g, x_init, y_init, x_dir, y_dir) ==
    LET b == g.board
        opposing_tile == opponent(g.current_player)
        x1 == wrapping_add_signed(x_init, x_dir)
        y1 == wrapping_add_signed(y_init, y_dir)
        x2 == wrapping_add_signed(x1, x_dir)
        y2 == wrapping_add_signed(y1, y_dir)
    IN  IF ~on_board(x1, y1) \/ get_cell(b, x1, y1) # opposing_tile
        THEN <<>>
        ELSE IF ~on_board(x2, y2)
        THEN <<>>
        ELSE LET e == walk_run(b, opposing_tile, x2, y2, x_dir, y_dir)
             IN  IF ~on_board(e[1], e[2])
                 THEN <<>>
                 ELSE backtrack(e[1], e[2], x_init, y_init, x_dir, y_dir)

\* one iteration of `for (x_dir, y_dir) in directions`: the cells this
\* direction pushes on tiles_to_flip
dir_flips(g, x_init, y_init, x_dir, y_dir) ==
    LET b == g.board
        opposing_tile == opponent(g.current_player)
        x1 == wrapping_add_signed(x_init, x_dir)
        y1 == wrapping_add_signed(y_init, y_dir)
        x2 == wrapping_add_signed(x1, x_dir)
        y2 == wrapping_add_signed(y1, y_dir)
    IN  IF ~on_board(x1, y1) \/ get_cell(b, x1, y1) # opposing_tile
        THEN <<>>
        ELSE IF ~on_board(x2, y2)
        THEN <<>>
        ELSE LET e == walk_run(b, opposing_tile, x2, y2, x_dir, y_dir)
             IN  IF ~on_board(e[1], e[2])
                 THEN <<>>
                 ELSE IF get_cell(b, e[1], e[2]) = g.current_player
                 THEN backtrack(e[1], e[2], x_init, y_init, x_dir, y_dir)
                 ELSE <<>>

RECURSIVE tiles_to_flip(_, _, _, _)
tiles_to_flip(g, x_init, y_init, k) ==
    IF k > Len(directions)
    THEN <<>>
    ELSE dir_flips(g, x_init, y_init, directions[k][1], directions[k][2])
             \o tiles_to_flip(g, x_init, y_init, k + 1)

\* mutant of is_valid_move: the target cell is not required to be Empty
is_valid_move_occupied(g, x_init, y_init) ==
    LET t == tiles_to_flip(g, x_init, y_init, 1)
    IN  IF t = <<>> THEN None ELSE Some(t)

is_valid_move(g, x_init, y_init) ==
    IF get_cell(g.board, x_init, y_init) # "Empty"
    THEN None
    ELSE LET t == tiles_to_flip(g, x_init, y_init, 1)
         IN  IF t = <<>> THEN None ELSE Some(t)

\* mutant of scan_order: y in the outer loop, x in the inner one
scan_order_rows ==
    [k \in 1 .. SIZE |-> at_pos((k - 1) % WIDTH, (k - 1) \div WIDTH)]

\* the order in which moves() visits the cells: x in the outer loop, y in
\* the inner one
scan_order ==
    [k \in 1 .. SIZE |-> at_pos((k - 1) \div HEIGHT, (k - 1) % HEIGHT)]

moves(g) ==
    LET valid(i) == is_valid_move(g, i % WIDTH, i \div WIDTH).some
    IN  SelectSeq(scan_order, valid)

swap_players(g) == [g EXCEPT !.current_player = opponent(g.current_player)]

\* mutant of Game_new: the two colours of the centre exchanged
Game_new_swapped ==
    LET b0 == Board_new
        b1 == set_cell(b0, 3, 3, "Two")
        b2 == set_cell(b1, 4, 4, "Two")
        b3 == set_cell(b2, 3, 4, "One")
        b4 == set_cell(b3, 4, 3, "One")
    IN  [board |-> b4, current_player |-> "One"]

Game_new ==
    LET b0 == Board_new
        b1 == set_cell(b0, 3, 3, "One")
        b2 == set_cell(b1, 4, 4, "One")
        b3 == set_cell(b2, 3, 4, "Two")
        b4 == set_cell(b3, 4, 3, "Two")
    IN  [board |-> b4, current_player |-> "One"]

\* `for idx in move_set { set_cell_idx(idx, current_player) }`
RECURSIVE set_all(_, _, _, _)
\* mutant of set_all: the last cell of move_set is left as it was
RECURSIVE set_all_but_last(_, _, _, _)
set_all_but_last(b, move_set, k, cell) ==
    IF k >= Len(move_set)
    THEN b
    ELSE set_all_but_last(set_cell_idx(b, move_set[k], cell), move_set, k + 1, cell)

set_all(b, move_set, k, cell) ==
    IF k > Len(move_set)
    THEN b
    ELSE set_all(set_cell_idx(b, move_set[k], cell), move_set, k + 1, cell)

\* mutant of apply_move: the target cell is written before the move is checked
apply_move_write_first(g, index, move_set) ==
    LET placed == set_cell_idx(g.board, index, g.current_player)
    IN  IF ~move_set.some
        THEN [ok |-> FALSE, game |-> [g EXCEPT !.board = placed]]
        ELSE [ok |-> TRUE,
              game |-> [board |-> set_all(placed, move_set.val, 1, g.current_player),
                        current_player |-> opponent(g.current_player)]]

\* mutant of apply_move: the turn is not advanced
apply_move_keep_turn(g, index, move_set) ==
    IF ~move_set.some
    THEN [ok |-> FALSE, game |-> g]
    ELSE [ok |-> TRUE,
          game |-> [board |-> set_all(
                                  set_cell_idx(g.board, index, g.current_player),
                                  move_set.val, 1, g.current_player),
                    current_player |-> g.current_player]]

\* mutant of apply_move: the turn stays with the mover when the opponent has
\* no legal move after the play (an automatic pass)
apply_move_auto_pass(g, index, move_set) ==
    IF ~move_set.some
    THEN [ok |-> FALSE, game |-> g]
    ELSE LET b == set_all(set_cell_idx(g.board, index, g.current_player),
                          move_set.val, 1, g.current_player)
             passed == [board |-> b, current_player |-> opponent(g.current_player)]
         IN  [ok |-> TRUE,
              game |-> IF moves(passed) = <<>>
                       THEN [board |-> b, current_player |-> g.current_player]
                       ELSE passed]

\* mutant of apply_move: the turn is advanced before the cells are written
apply_move_turn_first(g, index, move_set) ==
    LET next_player == opponent(g.current_player)
    IN  IF ~move_set.some
        THEN [ok |-> FALSE, game |-> g]
        ELSE [ok |-> TRUE,
              game |-> [board |-> set_all(
                                      set_cell_idx(g.board, index, next_player),
                                      move_set.val, 1, next_player),
                        current_player |-> next_player]]

\* mutant of apply_move: the target cell is not written
apply_move_no_target(g, index, move_set) ==
    IF ~move_set.some
    THEN [ok |-> FALSE, game |-> g]
    ELSE [ok |-> TRUE,
          game |-> [board |-> set_all(g.board, move_set.val, 1, g.current_player),
                    current_player |-> opponent(g.current_player)]]

\* play_idx from the `?` on: move_set is what is_valid_move returned.  The
\* value is the Result<()> together with the Game the call leaves behind
apply_move(g, index, move_set) ==
    IF ~move_set.some
    THEN [ok |-> FALSE, game |-> g]
    ELSE [ok |-> TRUE,
          game |-> [board |-> set_all(
                                  set_cell_idx(g.board, index, g.current_player),
                                  move_set.val, 1, g.current_player),
                    current_player |-> opponent(g.current_player)]]

play_idx(g, index) ==
    apply_move(g, index, is_valid_move(g, index % WIDTH, index \div WIDTH))

play(g, x, y) == play_idx(g, at_pos(x, y))

count_of(b, p) == Cardinality({i \in Indices : b[i] = p})

winning_player(g) ==
    LET player_one_count == count_of(g.board, "One")
        player_two_count == count_of(g.board, "Two")
    IN  IF player_one_count > player_two_count THEN Some("One")
        ELSE IF player_two_count > player_one_count THEN Some("Two")
        ELSE None

\* the outcome of a play made on a clone: r is what play_idx gave on the
\* clone, new_game is the clone after the play, game is the Game of the caller
on_clone(r, g) == [ok |-> r.ok, new_game |-> r.game, game |-> g]

\* mutant of play_on_clone: the move is played on the caller's Game itself
play_in_place(g, index) == on_clone(play_idx(g, index), play_idx(g, index).game)

\* `let mut new_game = game.clone(); new_game.play_idx(index)`
play_on_clone(g, index) == on_clone(play_idx(g, index), g)

\* is_winning_move after the `?`: s is the play on the clone
winning_result(s, player) ==
    IF ~s.ok
    THEN [ok |-> FALSE, game |-> s.game]
    ELSE [ok |-> TRUE,
          val |-> (winning_player(s.new_game) = Some(player)
                      /\ moves(s.new_game) = <<>>),
          game |-> s.game]

\* Result<bool>, with the Game of the caller after the call
is_winning_move(g, x, y, player) ==
    winning_result(play_on_clone(g, at_pos(x, y)), player)

is_winning_move_idx(g, index, player) ==
    is_winning_move(g, index % WIDTH, index \div WIDTH, player)

(***************************************************************************)
(* solve.rs: the solver.  negamax gives a record: ok and val are the       *)
(* Result<isize>, game is the Game of the caller after the call, depth is  *)
(* the depth of the recursion below the call, and grows tells that every   *)
(* recursive call below it was made on a position with exactly one more    *)
(* occupied cell than the position of its caller.                          *)
(***************************************************************************)
\* Game::total_moves as solve.rs calls it: the count of the Game's board
Game_total_moves(g) == total_moves(g.board)

\* Rust's `/` on isize truncates toward zero
div_trunc(a, d) == IF a >= 0 THEN a \div d ELSE -((-a) \div d)

\* mutant of win_score: the cells are counted after the winning move
win_score_after(g) == div_trunc(SIZE + 1 - (Game_total_moves(g) + 1), 2)

\* the value returned from inside the first loop of negamax
win_score(g) == div_trunc(SIZE + 1 - Game_total_moves(g), 2)

\* the first loop of negamax from its k-th move on: res is "win" when a move
\* is a winning move, "err" when is_winning_move_idx fails first, else "none"
RECURSIVE scan_win(_, _, _)

\* one iteration of the first loop: w is what is_winning_move_idx returned
scan_step(w, mv, k) ==
    IF ~w.ok THEN [res |-> "err", game |-> w.game]
    ELSE IF w.val THEN [res |-> "win", game |-> w.game]
    ELSE scan_win(w.game, mv, k + 1)

scan_win(g, mv, k) ==
    IF k > Len(mv)
    THEN [res |-> "none", game |-> g]
    ELSE scan_step(is_winning_move_idx(g, mv[k], g.current_player), mv, k)

\* mutant of keep_best: the smaller score is kept
keep_worst(score, best_score) == IF score < best_score THEN score ELSE best_score

\* `if score > best_score { best_score = score; }`
keep_best(score, best_score) == IF score > best_score THEN score ELSE best_score

MaxOf2(a, b) == IF a > b THEN a ELSE b

RECURSIVE negamax(_)
RECURSIVE best_from(_, _, _, _)

\* mutant of no_moves_result: the value is the tile differential of the side
\* to move
no_moves_result_diff(g) ==
    [ok |-> TRUE,
     val |-> count_of(g.board, g.current_player)
                 - count_of(g.board, opponent(g.current_player)),
     game |-> g, depth |-> 0, grows |-> TRUE]

\* what the search after a pass gives for the position before the pass
passed_result(r, g) ==
    [ok |-> r.ok, val |-> -r.val, game |-> g,
     depth |-> 1 + r.depth, grows |-> FALSE]

\* mutant of no_moves_result: the search goes on after a pass when the
\* opponent has a legal move
no_moves_result_pass(g) ==
    IF moves(swap_players(g)) = <<>>
    THEN [ok |-> TRUE, val |-> 0, game |-> g, depth |-> 0, grows |-> TRUE]
    ELSE passed_result(negamax(swap_players(g)), g)

\* `if moves.is_empty() { return Ok(0); }`
no_moves_result(g) ==
    [ok |-> TRUE, val |-> 0, game |-> g, depth |-> 0, grows |-> TRUE]

\* the body of the second loop after the recursive call: r is what
\* negamax(&new_game) returned, s the play on the clone
best_scored(r, s, g, mv, k, acc) ==
    IF ~r.ok
    THEN [ok |-> FALSE, val |-> 0, game |-> s.game,
          depth |-> MaxOf2(acc.depth, 1 + r.depth), grows |-> acc.grows]
    ELSE best_from(s.game, mv, k + 1,
             [best_score |-> keep_best(-r.val, acc.best_score),
              depth |-> MaxOf2(acc.depth, 1 + r.depth),
              grows |-> /\ acc.grows
                        /\ r.grows
                        /\ total_moves(s.new_game.board) = total_moves(g.board) + 1])

\* the body of the second loop after `new_game.play_idx(*possible_move)?`
best_played(s, g, mv, k, acc) ==
    IF ~s.ok
    THEN [ok |-> FALSE, val |-> 0, game |-> s.game,
          depth |-> acc.depth, grows |-> acc.grows]
    ELSE best_scored(negamax(s.new_game), s, g, mv, k, acc)

\* the second loop of negamax from its k-th move on; acc holds best_score and
\* the depth and grows of the calls made so far
best_from(g, mv, k, acc) ==
    IF k > Len(mv)
    THEN [ok |-> TRUE, val |-> acc.best_score, game |-> g,
          depth |-> acc.depth, grows |-> acc.grows]
    ELSE best_played(play_on_clone(g, mv[k]), g, mv, k, acc)

\* negamax after its first loop: w is what the loop gave
negamax_scanned(w, mv) ==
    IF w.res = "err"
    THEN [ok |-> FALSE, val |-> 0, game |-> w.game, depth |-> 0, grows |-> TRUE]
    ELSE IF w.res = "win"
    THEN [ok |-> TRUE, val |-> win_score(w.game), game |-> w.game,
          depth |-> 0, grows |-> TRUE]
    ELSE best_from(w.game, mv, 1,
             [best_score |-> -SIZE, depth |-> 0, grows |-> TRUE])

\* negamax after `let moves = game.moves()`
negamax_moves(g, mv) ==
    IF mv = <<>>
    THEN no_moves_result(g)
    ELSE negamax_scanned(scan_win(g, mv, 1), mv)

negamax(g) == negamax_moves(g, moves(g))

\* the score solve pairs with one move: the value negamax gave for the
\* position after it (`let score = negamax(&new_game).unwrap()`, not negated)
solve_score(r) == r.val

RECURSIVE solve_from(_, _, _, _)

\* the closure of solve after `negamax(&new_game)`: unwrap panics on Err
solve_scored(r, s, mv, k, out) ==
    IF ~r.ok
    THEN [val |-> out, game |-> s.game, panicked |-> TRUE]
    ELSE solve_from(s.game, mv, k + 1, Append(out, <<solve_score(r), mv[k]>>))

\* the closure of solve after `new_game.play_idx(possible_move)`: unwrap
\* panics on Err
solve_played(s, mv, k, out) ==
    IF ~s.ok
    THEN [val |-> out, game |-> s.game, panicked |-> TRUE]
    ELSE solve_scored(negamax(s.new_game), s, mv, k, out)

\* the closure of solve from the k-th move on: val is the Vec collected so
\* far, game the Game of the caller, panicked tells that an unwrap failed
solve_from(g, mv, k, out) ==
    IF k > Len(mv)
    THEN [val |-> out, game |-> g, panicked |-> FALSE]
    ELSE solve_played(play_on_clone(g, mv[k]), mv, k, out)

\* solve with the Game of the caller after the call
solve_run(g) == solve_from(g, moves(g), 1, <<>>)

\* Vec<(isize, usize)>: one <<score, move>> per move, in the order of moves()
solve(g) == solve_run(g).val

(***************************************************************************)
(* lib.rs, board.rs: the text form of a Game.  A string is a sequence of   *)
(* characters, each a string of length one; "\n" is the newline.           *)
(***************************************************************************)
\* Cell::to_char
to_char(cell) ==
    IF cell = "Empty" THEN "-" ELSE IF cell = "One" THEN "X" ELSE "O"

\* the characters of one board row as Display for Game writes them
fmt_row(g, mv, y) ==
    [k \in 1 .. WIDTH |->
        IF at_pos(k - 1, y) \in mv THEN "*" ELSE to_char(get_cell(g.board, k - 1, y))]

RECURSIVE fmt_rows(_, _, _)
fmt_rows(g, mv, y) ==
    IF y >= HEIGHT THEN <<>>
    ELSE fmt_row(g, mv, y) \o <<"\n">> \o fmt_rows(g, mv, y + 1)

\* writeln!(f, "Current player: {}", ...)
fmt_header(g) ==
    <<"C", "u", "r", "r", "e", "n", "t", " ", "p", "l", "a", "y", "e", "r", ":", " ">>
        \o <<to_char(g.current_player)>> \o <<"\n">>

\* impl fmt::Display for Game: what game.to_string() gives
Game_fmt(g) == fmt_header(g) \o fmt_rows(g, Range(moves(g)), 0)

\* the place of the first newline of string from place k on, or
\* Len(string) + 1 when there is none
next_newline(string, k) ==
    IF \E j \in k .. Len(string) : string[j] = "\n"
    THEN CHOOSE j \in k .. Len(string) :
             /\ string[j] = "\n"
             /\ \A i \in k .. (j - 1) : string[i] # "\n"
    ELSE Len(string) + 1

\* string.split('\n'): the pieces between the newlines, the one after the
\* last newline included; the piece that starts at place k ends before
\* place p
RECURSIVE split_from(_, _, _)
split_at(string, k, rows, p) ==
    IF p > Len(string) THEN Append(rows, SubSeq(string, k, Len(string)))
    ELSE split_from(string, p + 1, Append(rows, SubSeq(string, k, p - 1)))

split_from(string, k, rows) ==
    split_at(string, k, rows, next_newline(string, k))

split(string) == split_from(string, 1, <<>>)

\* Vec::sort_unstable on indices: insertion into an ascending sequence
RECURSIVE insert_sorted(_, _)
insert_sorted(v, sorted) ==
    IF sorted = <<>> THEN <<v>>
    ELSE IF v <= Head(sorted) THEN <<v>> \o sorted
    ELSE <<Head(sorted)>> \o insert_sorted(v, Tail(sorted))

RECURSIVE sort_unstable(_)
sort_unstable(s) ==
    IF s = <<>> THEN <<>> ELSE insert_sorted(Head(s), sort_unstable(Tail(s)))

\* mutant of moves_match: moves() is compared as it comes, not sorted
moves_match_unsorted(mv, recorded_possible_moves) ==
    mv = sort_unstable(recorded_possible_moves)

\* `moves.sort_unstable(); recorded_possible_moves.sort_unstable();
\*  moves != recorded_possible_moves` is false
moves_match(mv, recorded_possible_moves) ==
    sort_unstable(mv) = sort_unstable(recorded_possible_moves)

\* the inner loop of from_string over the characters of row y from column x
\* on; err is "" while no error was returned
RECURSIVE parse_chars(_, _, _, _, _)
parse_chars(b, recorded, row, x, y) ==
    IF x >= Len(row)
    THEN [err |-> "", board |-> b, recorded |-> recorded]
    ELSE IF x >= WIDTH
    THEN [err |-> "Too many columns", board |-> b, recorded |-> recorded]
    ELSE LET character == row[x + 1]
         IN  IF character = "X"
             THEN parse_chars(set_cell(b, x, y, "One"), recorded, row, x + 1, y)
             ELSE IF character = "O"
             THEN parse_chars(set_cell(b, x, y, "Two"), recorded, row, x + 1, y)
             ELSE IF character = "*"
             THEN parse_chars(b, Append(recorded, at_pos(x, y)), row, x + 1, y)
             ELSE IF character = "-"
             THEN parse_chars(set_cell(b, x, y, "Empty"), recorded, row, x + 1, y)
             ELSE [err |-> "Invalid character", board |-> b, recorded |-> recorded]

\* the outer loop of from_string from row y on
RECURSIVE parse_rows(_, _, _, _)
parse_rows(b, recorded, rows, y) ==
    IF y >= Len(rows)
    THEN [err |-> "", board |-> b, recorded |-> recorded]
    ELSE IF y >= HEIGHT
    THEN [err |-> "Too many rows", board |-> b, recorded |-> recorded]
    ELSE LET r == parse_chars(b, recorded, rows[y + 1], 0, y)
         IN  IF r.err # "" THEN r
             ELSE parse_rows(r.board, r.recorded, rows, y + 1)

\* Game::from_string: Result<Game>, with the message in err when it is Err
from_string(string, player, validate) ==
    LET r == parse_rows(Game_new.board, <<>>, split(string), 0)
        game == [board |-> r.board, current_player |-> player]
    IN  IF r.err # "" THEN [ok |-> FALSE, err |-> r.err]
        ELSE IF validate /\ ~moves_match(moves(game), r.recorded)
        THEN [ok |-> FALSE, err |-> "real != recorded moves"]
        ELSE Ok(game)

(***************************************************************************)
(* The state machine.  board and current_player are the Game; op, arg, ok  *)
(* and ret record the last call, its argument, whether it returned Ok and  *)
(* what it returned; pre is the Game the call was made on; plays counts    *)
(* the successful plays.                                                   *)
(***************************************************************************)
Game == [board |-> board, current_player |-> current_player]

NoArg == <<>>

\* Game::new()
Init ==
    /\ board = Game_new.board
    /\ current_player = Game_new.current_player
    /\ op = "new"
    /\ arg = NoArg
    /\ ok = TRUE
    /\ ret = <<>>
    /\ pre = Game_new
    /\ plays = 0

\* game.play_idx(index); ret is the move_set of a successful call
PlayIdx(index) ==
    /\ plays < MaxPlays
    /\ LET move_set == is_valid_move(Game, index % WIDTH, index \div WIDTH)
           r == apply_move(Game, index, move_set)
       IN  /\ board' = r.game.board
           /\ current_player' = r.game.current_player
           /\ ok' = r.ok
           /\ ret' = IF r.ok THEN move_set.val ELSE <<>>
           /\ plays' = IF r.ok THEN plays + 1 ELSE plays
    /\ op' = "play_idx"
    /\ arg' = index
    /\ pre' = Game

\* game.play(x, y): the call is play_idx(at_pos(x, y)) and is recorded as that
\* call
Play(x, y) ==
    /\ plays < MaxPlays
    /\ LET index == at_pos(x, y)
           move_set == is_valid_move(Game, index % WIDTH, index \div WIDTH)
           r == apply_move(Game, index, move_set)
       IN  /\ board' = r.game.board
           /\ current_player' = r.game.current_player
           /\ ok' = r.ok
           /\ ret' = IF r.ok THEN move_set.val ELSE <<>>
           /\ plays' = IF r.ok THEN plays + 1 ELSE plays
           /\ arg' = index
    /\ op' = "play_idx"
    /\ pre' = Game

\* game.swap_players()
SwapPlayers ==
    /\ board' = swap_players(Game).board
    /\ current_player' = swap_players(Game).current_player
    /\ op' = "swap_players"
    /\ arg' = NoArg
    /\ ok' = TRUE
    /\ ret' = <<>>
    /\ pre' = Game
    /\ UNCHANGED plays

Next ==
    \/ \E index \in Indices : PlayIdx(index)
    \/ \E x \in 0 .. (WIDTH - 1), y \in 0 .. (HEIGHT - 1) : Play(x, y)
    \/ SwapPlayers

Spec == Init /\ [][Next]_vars

(***************************************************************************)
(* Properties of the rules engine, checked under Spec.                     *)
(***************************************************************************)
MoveSet(g) == Range(moves(g))

\* C1 as stated: in the Game returned by Game::new(), moves() has exactly 4
\* moves and they are the cells (2,3), (3,2), (4,5) and (5,4).
C1_AsStated ==
    op = "new" =>
        /\ Len(moves(Game)) = 4
        /\ MoveSet(Game) = {at_pos(2, 3), at_pos(3, 2), at_pos(4, 5), at_pos(5, 4)}

\* C1 amended: in the Game returned by Game::new(), moves() has exactly 4
\* moves and they are the cells (2,4), (3,5), (4,2) and (5,3).
C1_OpeningMoves ==
    op = "new" =>
        /\ Len(moves(Game)) = 4
        /\ MoveSet(Game) = {at_pos(2, 4), at_pos(3, 5), at_pos(4, 2), at_pos(5, 3)}

C1_Witness ==
    /\ op = "new"
    /\ Game = Game_new
    /\ Len(moves(Game)) = 4

\* C2: in every Game reached by successful plays and swaps, every index
\* moves() returns is an Empty cell, and playing it succeeds and turns at
\* least one cell of the opponent into a cell of the mover.
C2_MovesAreEmptyAndFlip ==
    LET mv == moves(Game)
    IN  \A k \in 1 .. Len(mv) :
            LET r == play_idx(Game, mv[k])
            IN  /\ mv[k] \in Indices
                /\ board[mv[k]] = "Empty"
                /\ r.ok
                /\ \E c \in Indices :
                       /\ board[c] \in Players
                       /\ board[c] # current_player
                       /\ r.game.board[c] = current_player

C2_Witness ==
    /\ op = "swap_players"
    /\ plays > 0
    /\ Len(moves(Game)) > 1

\* C3: a play_idx (or play) on an index that is not in moves() returns an
\* error and leaves board and current_player as they were.
C3_IllegalPlayRejected ==
    (op = "play_idx" /\ arg \notin MoveSet(pre)) =>
        /\ ~ok
        /\ board = pre.board
        /\ current_player = pre.current_player

C3_Witness ==
    /\ op = "play_idx"
    /\ ~ok
    /\ plays > 0
    /\ pre.board[arg] = "Empty"
    /\ arg \notin MoveSet(pre)

\* C4: after a successful play the player to move is the other player than
\* the one who moved, also when that player has no legal move (checked under
\* EndgameSpec, where plays leave a player without a move).
C4_TurnAdvances ==
    (op = "play_idx" /\ ok) =>
        /\ current_player \in Players
        /\ current_player # pre.current_player

C4_Witness ==
    /\ op = "play_idx"
    /\ ok
    /\ current_player # pre.current_player
    /\ moves(Game) = <<>>
    /\ moves(swap_players(Game)) # <<>>

\* C5: a successful play never decreases the mover's tile count and never
\* increases the opponent's.
C5_CountsMonotone ==
    (op = "play_idx" /\ ok) =>
        LET mover == pre.current_player
            other == CHOOSE p \in Players : p # mover
        IN  /\ count_of(board, mover) >= count_of(pre.board, mover)
            /\ count_of(board, other) <= count_of(pre.board, other)

C5_Witness ==
    /\ op = "play_idx"
    /\ ok
    /\ count_of(board, pre.current_player) > count_of(pre.board, pre.current_player)
    /\ count_of(board, current_player) < count_of(pre.board, current_player)

\* C6 as stated: after a successful play the number of occupied cells has
\* grown by exactly 1 + |flip set|.
C6_AsStated ==
    (op = "play_idx" /\ ok) =>
        total_moves(board) = total_moves(pre.board) + 1 + Len(ret)

\* C6 amended: after a successful play the number of occupied cells has grown
\* by exactly 1 (the cells of the flip set were occupied before); it is the
\* mover's tile count that has grown by exactly 1 + |flip set|.
C6_OccupiedGrowsByOne ==
    (op = "play_idx" /\ ok) =>
        /\ total_moves(board) = total_moves(pre.board) + 1
        /\ count_of(board, pre.current_player)
               = count_of(pre.board, pre.current_player) + 1 + Len(ret)

C6_Witness ==
    /\ op = "play_idx"
    /\ ok
    /\ Len(ret) >= 1
    /\ total_moves(board) = total_moves(pre.board) + 1

IsStrictlyAscending(s) == \A k \in 1 .. (Len(s) - 1) : s[k] < s[k + 1]

\* C7 as stated: moves() is in strictly ascending order of the linear index
\* x + y*WIDTH (row-major).
C7_AsStated ==
    LET mv == moves(Game)
    IN  IsStrictlyAscending(mv)

\* C7 amended: moves() is in column-major order (top to bottom, then left to
\* right), that is in strictly ascending order of y + x*HEIGHT.
C7_ColumnMajor ==
    LET mv == moves(Game)
    IN  IsStrictlyAscending(
            [k \in 1 .. Len(mv) |-> (mv[k] \div WIDTH) + (mv[k] % WIDTH) * HEIGHT])

C7_Witness ==
    LET mv == moves(Game)
    IN  /\ Len(mv) >= 2
        /\ \E k \in 1 .. (Len(mv) - 1) : mv[k] > mv[k + 1]

(***************************************************************************)
(* The solver's inputs.  from_string(text, player, false) builds a Game    *)
(* from any 8x8 text, so the solver can be handed any board.  The inputs   *)
(* are boards near the end of a game: every cell is occupied, the rows     *)
(* belonging to One and Two in turn (One has the top row), except the      *)
(* first NFree cells of FreeCells, which hold any Cell.                    *)
(***************************************************************************)
FreeCells ==
    <<at_pos(0, 0), at_pos(0, 1), at_pos(WIDTH - 1, 0), at_pos(WIDTH - 1, 1),
      at_pos(0, 2), at_pos(WIDTH - 1, 2)>>

FreeSet == {FreeCells[k] : k \in 1 .. NFree}

Filled(i) == IF (i \div WIDTH) % 2 = 0 THEN "One" ELSE "Two"

SolverInputs ==
    {[i \in Indices |-> IF i \in FreeSet THEN f[i] ELSE Filled(i)] :
        f \in [FreeSet -> Cells]}

InitSolver ==
    /\ board \in SolverInputs
    /\ current_player \in Players
    /\ op = "from_string"
    /\ arg = NoArg
    /\ ok = TRUE
    /\ ret = <<>>
    /\ pre = Game
    /\ plays = 0

\* negamax(&game); ret is what it returns
CallNegamax ==
    /\ LET r == negamax(Game)
       IN  /\ ret' = r
           /\ ok' = r.ok
           /\ board' = r.game.board
           /\ current_player' = r.game.current_player
    /\ op' = "negamax"
    /\ arg' = NoArg
    /\ pre' = Game
    /\ UNCHANGED plays

\* solve(&game); ret is the Vec of <<score, move>> it returns
CallSolve ==
    /\ LET r == solve_run(Game)
       IN  /\ ret' = r.val
           /\ ok' = ~r.panicked
           /\ board' = r.game.board
           /\ current_player' = r.game.current_player
    /\ op' = "solve"
    /\ arg' = NoArg
    /\ pre' = Game
    /\ UNCHANGED plays

\* game.is_winning_move_idx(index, player); ret is the Result<bool>
CallIsWinningMoveIdx(index, player) ==
    /\ LET w == is_winning_move_idx(Game, index, player)
       IN  /\ ret' = IF w.ok THEN Ok(w.val) ELSE Err
           /\ ok' = w.ok
           /\ board' = w.game.board
           /\ current_player' = w.game.current_player
    /\ op' = "is_winning_move_idx"
    /\ arg' = <<index, player>>
    /\ pre' = Game
    /\ UNCHANGED plays

NextSolver ==
    \/ CallNegamax
    \/ CallSolve
    \/ \E index \in FreeSet, player \in Players : CallIsWinningMoveIdx(index, player)
    \/ SwapPlayers

SolverSpec == InitSolver /\ [][NextSolver]_vars

(***************************************************************************)
(* Play near the end of a game: the Games are the solver's inputs and the  *)
(* targets played are the cells that can be Empty in them.                 *)
(***************************************************************************)
NextEndgame ==
    \/ \E index \in FreeSet : PlayIdx(index)
    \/ \E index \in FreeSet : Play(index % WIDTH, index \div WIDTH)
    \/ SwapPlayers

EndgameSpec == InitSolver /\ [][NextEndgame]_vars

(***************************************************************************)
(* Parsing: from Game::new() by legal plays, with from_string called on    *)
(* texts made from the Game at hand: what Display writes, the eight rows   *)
(* of it as the test resources give them (joined by newlines), and         *)
(* variants of these rows.                                                 *)
(***************************************************************************)
RECURSIVE join_rows(_, _, _)
join_rows(g, mv, y) ==
    IF y >= HEIGHT - 1 THEN fmt_row(g, mv, y)
    ELSE fmt_row(g, mv, y) \o <<"\n">> \o join_rows(g, mv, y + 1)

\* the eight rows with '*' on the legal moves, joined by newlines
grid_text(g) == join_rows(g, Range(moves(g)), 0)

\* the eight rows without any '*'
plain_text(g) == join_rows(g, {}, 0)

\* the cells whose character the variants overwrite, and the characters
EditCells == {at_pos(2, 4), at_pos(0, 0)}

EditChars == {"-", "*"}

\* the place of cell i in a text of eight full rows joined by newlines
text_pos(i) == (i \div WIDTH) * (WIDTH + 1) + (i % WIDTH) + 1

edited(string, f) ==
    [k \in 1 .. Len(string) |->
        IF \E i \in EditCells : text_pos(i) = k
        THEN f[CHOOSE i \in EditCells : text_pos(i) = k]
        ELSE string[k]]

Texts(g) ==
    LET grid == grid_text(g)
    IN  {Game_fmt(g),
         grid,
         grid \o <<"\n">>,
         plain_text(g),
         <<"-">> \o grid,
         [grid EXCEPT ![text_pos(at_pos(0, 0))] = "?"],
         [grid EXCEPT ![text_pos(at_pos(3, 3))] = "*"],
         SubSeq(grid, 1, text_pos(at_pos(WIDTH - 1, 2))),
         <<>>}
            \cup {edited(grid, f) : f \in [EditCells -> EditChars]}

\* Game::from_string(string, player, validate); ret is the Result<Game>
FromString(string, player, validate) ==
    /\ op' = "from_string"
    /\ arg' = [string |-> string, player |-> player, validate |-> validate]
    /\ LET r == from_string(string, player, validate)
       IN  /\ ret' = r
           /\ ok' = r.ok
    /\ pre' = Game
    /\ UNCHANGED <<board, current_player, plays>>

NextParse ==
    \/ \E index \in MoveSet(Game) : plays < MaxParsePlays /\ PlayIdx(index)
    \/ \E string \in Texts(Game), player \in Players, validate \in BOOLEAN :
           FromString(string, player, validate)

ParseSpec == Init /\ [][NextParse]_vars

(***************************************************************************)
(* play with any pair of coordinates, on the board or beyond it.           *)
(***************************************************************************)
\* the bounds check of `self.cells[...]`: an index beyond the array panics
in_bounds(idx) == idx < SIZE

\* the outcome of a call that did not panic
no_panic(r) == [ok |-> r.ok, game |-> r.game, panicked |-> FALSE]

\* game.play(x, y) for any x and y: play_idx(at_pos(x, y)) hands
\* (index % WIDTH, index / WIDTH) to is_valid_move, whose first read
\* get_cell(x_init, y_init) panics when the index is beyond the array
play_any(g, x, y) ==
    IF ~in_bounds(at_pos(x, y))
    THEN [ok |-> FALSE, game |-> g, panicked |-> TRUE]
    ELSE no_panic(play(g, x, y))

\* game.play(x, y); ret tells whether the call panicked
PlayXY(x, y) ==
    /\ plays < MaxPlays
    /\ LET r == play_any(Game, x, y)
       IN  /\ board' = r.game.board
           /\ current_player' = r.game.current_player
           /\ ok' = r.ok
           /\ ret' = [panicked |-> r.panicked]
           /\ plays' = IF r.ok THEN plays + 1 ELSE plays
    /\ op' = "play"
    /\ arg' = <<x, y>>
    /\ pre' = Game

NextCoord ==
    \E x \in 0 .. (WIDTH - 1 + CoordOver), y \in 0 .. (HEIGHT - 1 + CoordOver) :
        PlayXY(x, y)

CoordSpec == Init /\ [][NextCoord]_vars

(***************************************************************************)
(* Properties of the solver, checked under SolverSpec.                     *)
(***************************************************************************)
\* the Game after the legal move m has been played on g
After(g, m) == play_idx(g, m).game

\* the values -negamax(P') over the successors P' of g
ChildValues(g) == {-(negamax(After(g, m)).val) : m \in MoveSet(g)}

MaxOf(S) == CHOOSE v \in S : \A w \in S : w <= v

\* some legal move leaves the opponent without a legal move and the mover
\* with strictly more tiles than the opponent
HasWinningMove(g) ==
    \E m \in MoveSet(g) :
        /\ moves(After(g, m)) = <<>>
        /\ count_of(After(g, m).board, g.current_player)
               > count_of(After(g, m).board, After(g, m).current_player)

\* C8: the score solve pairs with a move m is -negamax of the position after
\* m, the value from the perspective of the player who played m.
C8_SolveScoreIsMoversValue ==
    op = "solve" =>
        \A k \in 1 .. Len(ret) :
            ret[k][1] = -(negamax(After(pre, ret[k][2])).val)

\* C9 as stated: for every position with a legal move, negamax is the
\* maximum over the legal moves m of -negamax(position after m).
C9_AsStated ==
    (op = "negamax" /\ moves(pre) # <<>>) =>
        /\ ret.ok
        /\ ret.val = MaxOf(ChildValues(pre))

\* C9 amended: for every position with a legal move, negamax is at least
\* -negamax(P') for every successor P'; it equals the maximum of these values
\* when no legal move wins at once (leaves the opponent without a move and
\* the mover with more tiles).
C9_MaxOfNegatedChildren ==
    (op = "negamax" /\ moves(pre) # <<>>) =>
        /\ ret.ok
        /\ \A v \in ChildValues(pre) : ret.val >= v
        /\ ~HasWinningMove(pre) => ret.val = MaxOf(ChildValues(pre))

C9_Witness ==
    /\ op = "negamax"
    /\ Len(moves(pre)) >= 2
    /\ ~HasWinningMove(pre)
    /\ ret.val = MaxOf(ChildValues(pre))
    /\ \E v \in ChildValues(pre) : v < ret.val

\* C10 as stated: when some legal move wins at once, negamax returns
\* (SIZE + 1 - n) / 2 with n the number of occupied cells after that move.
C10_AsStated ==
    (op = "negamax" /\ HasWinningMove(pre)) =>
        /\ ret.ok
        /\ ret.val = (SIZE + 1 - (total_moves(pre.board) + 1)) \div 2

\* C10 amended: when some legal move wins at once, negamax returns
\* (SIZE + 1 - n) / 2 with n the number of occupied cells of the position
\* negamax was called on, before the move is played.
C10_WinScoreCountsBeforeMove ==
    (op = "negamax" /\ HasWinningMove(pre)) =>
        /\ ret.ok
        /\ ret.val = (SIZE + 1 - total_moves(pre.board)) \div 2

C10_Witness ==
    /\ op = "negamax"
    /\ HasWinningMove(pre)
    /\ total_moves(pre.board) = SIZE - 3
    /\ ret.val = 2

\* C11: for every position in which the side to move has a move that wins at
\* once, negamax returns a strictly positive score, also when that move fills
\* the last empty cell of the board.
C11_WinningMoveScoresPositive ==
    (op = "negamax" /\ HasWinningMove(pre)) =>
        /\ ret.ok
        /\ ret.val > 0

C11_Witness ==
    /\ op = "negamax"
    /\ HasWinningMove(pre)
    /\ total_moves(pre.board) = SIZE - 1
    /\ ret.ok
    /\ ret.val = 1

\* no play of the side to move succeeds on any cell of the board
NoLegalMove(g) == \A i \in Indices : ~play_idx(g, i).ok

\* C12: for every position in which the side to move has no legal move, a
\* full board among them, moves() is empty and negamax returns 0 whatever
\* the tile counts are.
C12_NoMoveScoresZero ==
    (op = "negamax" /\ NoLegalMove(pre)) =>
        /\ moves(pre) = <<>>
        /\ ret.ok
        /\ ret.val = 0

C12_Witness ==
    /\ op = "negamax"
    /\ NoLegalMove(pre)
    /\ total_moves(pre.board) = SIZE
    /\ count_of(pre.board, pre.current_player)
           > count_of(pre.board, opponent(pre.current_player)) + 1
    /\ ret.val = 0

\* C13: in a position where the side to move has no legal move and the
\* opponent has one, the value of negamax is the one found by searching on
\* after a pass: the negated value of the position with the opponent to move.
C13_PassIsSearched ==
    (op = "negamax" /\ moves(pre) = <<>> /\ moves(swap_players(pre)) # <<>>) =>
        ret.val = -(negamax(swap_players(pre)).val)

\* C14: negamax, solve and is_winning_move_idx leave the Game they are called
\* on as it was: board and current_player are those of before the call.
C14_SearchLeavesGameUnchanged ==
    op \in {"negamax", "solve", "is_winning_move_idx"} =>
        /\ board = pre.board
        /\ current_player = pre.current_player

C14_Witness ==
    /\ op = "negamax"
    /\ ret.ok
    /\ ret.depth >= 2
    /\ Len(moves(pre)) >= 2
    /\ board = pre.board
    /\ current_player = pre.current_player

\* C20: negamax returns on every position; each recursive call is made on a
\* position with exactly one more occupied cell than the position of its
\* caller, so the depth of the recursion never exceeds the number of empty
\* cells of the position negamax was called on.
C20_DepthBoundedByEmptyCells ==
    op = "negamax" =>
        /\ ret.grows
        /\ ret.depth <= SIZE - total_moves(pre.board)

C20_Witness ==
    /\ op = "negamax"
    /\ ret.ok
    /\ ret.grows
    /\ ret.depth >= 3
    /\ ret.depth = SIZE - total_moves(pre.board)

\* C15: for every Game reached from Game::new() by legal plays, from_string
\* on the Display output of the Game, for its current player and with
\* validate = true, succeeds and gives a Game with the same board and
\* current_player.
C15_DisplayRoundTrip ==
    (/\ op = "from_string"
     /\ arg.string = Game_fmt(pre)
     /\ arg.player = pre.current_player
     /\ arg.validate) =>
        /\ ret.ok
        /\ ret.val.board = pre.board
        /\ ret.val.current_player = pre.current_player

\* a layout of HEIGHT rows of WIDTH characters, each one of X O - *
WellFormed(string) ==
    LET rows == split(string)
    IN  /\ Len(rows) = HEIGHT
        /\ \A y \in 1 .. HEIGHT :
               /\ Len(rows[y]) = WIDTH
               /\ \A x \in 1 .. WIDTH : rows[y][x] \in {"X", "O", "-", "*"}

\* the text has a character for cell i
HasChar(string, i) ==
    LET rows == split(string)
    IN  /\ i \div WIDTH < Len(rows)
        /\ i % WIDTH < Len(rows[(i \div WIDTH) + 1])

\* the character the text has for cell i
CharAt(string, i) == split(string)[(i \div WIDTH) + 1][(i % WIDTH) + 1]

StarCells(string) ==
    {i \in Indices : HasChar(string, i) /\ CharAt(string, i) = "*"}

\* C16: for a well-formed layout and a player, from_string with validate =
\* true returns Ok exactly when the set of '*' cells is the set of moves() of
\* the parsed board for that player, and Err when the two differ.
C16_ValidateAcceptsExactlyTheMoves ==
    (op = "from_string" /\ arg.validate /\ WellFormed(arg.string)) =>
        (ret.ok <=>
            StarCells(arg.string)
                = MoveSet(from_string(arg.string, arg.player, FALSE).val))

C16_Witness ==
    /\ op = "from_string"
    /\ arg.validate
    /\ WellFormed(arg.string)
    /\ plays >= 1
    /\ Cardinality(StarCells(arg.string)) >= 2
    /\ ret.ok
    /\ StarCells(arg.string) = MoveSet(ret.val)

\* C17: whenever from_string returns Ok, the board is the one the text gives:
\* the text has a character for every cell, and a cell written 'X' is One,
\* 'O' is Two, '-' or '*' is Empty.
C17_BoardIsWhatTheTextSays ==
    (op = "from_string" /\ ret.ok) =>
        \A i \in Indices :
            /\ HasChar(arg.string, i)
            /\ ret.val.board[i] =
                   (IF CharAt(arg.string, i) = "X" THEN "One"
                    ELSE IF CharAt(arg.string, i) = "O" THEN "Two"
                    ELSE "Empty")

\* the eight directions, as steps on the integers
Dirs8 == {d \in (-1 .. 1) \X (-1 .. 1) : d # <<0, 0>>}

\* the cell k steps from index i in direction d is on the board
StepOnBoard(i, d, k) ==
    /\ (i % WIDTH) + k * d[1] \in 0 .. WIDTH - 1
    /\ (i \div WIDTH) + k * d[2] \in 0 .. HEIGHT - 1

StepCell(i, d, k) == at_pos((i % WIDTH) + k * d[1], (i \div WIDTH) + k * d[2])

\* from the cell next to i, n cells of the opponent in direction d follow one
\* another on the board, and the cell after them is on the board and is the
\* current player's
IsSandwich(g, i, d, n) ==
    /\ \A j \in 1 .. n :
           /\ StepOnBoard(i, d, j)
           /\ g.board[StepCell(i, d, j)] = opponent(g.current_player)
    /\ StepOnBoard(i, d, n + 1)
    /\ g.board[StepCell(i, d, n + 1)] = g.current_player

\* the opponent cells of all such runs around i
FlipSet(g, i) ==
    UNION {{StepCell(i, d, k) : k \in 1 .. n} :
              <<d, n>> \in {p \in Dirs8 \X (1 .. WIDTH - 2) :
                               IsSandwich(g, i, p[1], p[2])}}

\* C18: for every board, player and Empty target cell, the cells is_valid_move
\* gives are exactly the opponent cells of the unbroken runs that start next
\* to the target in one of the eight directions and end just before a cell of
\* the current player; a run that reaches the edge or an Empty cell gives
\* nothing, and the move is legal exactly when the set is not empty.
C18_FlipSetIsTheSandwichedRuns ==
    \A g \in {Game, swap_players(Game)} :
        \A i \in Indices :
            g.board[i] = "Empty" =>
                LET r == is_valid_move(g, i % WIDTH, i \div WIDTH)
                    flips == FlipSet(g, i)
                IN  /\ r.some <=> flips # {}
                    /\ r.some => Range(r.val) = flips
                    /\ play_idx(g, i).ok <=> flips # {}

\* from the cell next to i, n cells of the opponent follow one another in
\* direction d and the run ends at the edge of the board
RunToEdge(g, i, d, n) ==
    /\ \A j \in 1 .. n :
           /\ StepOnBoard(i, d, j)
           /\ g.board[StepCell(i, d, j)] = opponent(g.current_player)
    /\ ~StepOnBoard(i, d, n + 1)

C18_Witness ==
    /\ op = "play_idx"
    /\ ok
    /\ pre.board[arg] = "Empty"
    /\ Range(ret) = FlipSet(pre, arg)
    /\ \E d \in Dirs8 : IsSandwich(pre, arg, d, 2)
    /\ Cardinality({d \in Dirs8 :
                       \E n \in 1 .. WIDTH - 2 : IsSandwich(pre, arg, d, n)}) >= 2
    /\ \E d \in Dirs8, n \in 2 .. WIDTH - 1 : RunToEdge(pre, arg, d, n)

\* C19: a successful play sets the target cell and every cell of the flip set
\* to the mover and leaves every other cell as it was.
C19_PlayWritesTargetAndFlipsOnly ==
    (op = "play_idx" /\ ok) =>
        \A c \in Indices :
            board[c] = IF c = arg \/ c \in FlipSet(pre, arg)
                       THEN pre.current_player
                       ELSE pre.board[c]

C19_Witness ==
    /\ op = "play_idx"
    /\ ok
    /\ Cardinality(FlipSet(pre, arg)) >= 2
    /\ \A c \in FlipSet(pre, arg) :
           pre.board[c] # pre.current_player /\ board[c] = pre.current_player

\* the four cells Game::new() fills
CentreCells == {at_pos(3, 3), at_pos(4, 4), at_pos(3, 4), at_pos(4, 3)}

\* C24: in every Game reached from Game::new() by play, play_idx (successful
\* or failed) and swap_players, a cell that was occupied before the last call
\* is occupied after it, the four centre cells are occupied, and the number
\* of occupied cells is 4 plus the number of successful plays so far.
C24_OccupiedCellsStayAndCount ==
    /\ \A c \in Indices : pre.board[c] # "Empty" => board[c] # "Empty"
    /\ \A c \in CentreCells : board[c] # "Empty"
    /\ total_moves(board) = 4 + plays

C24_Witness ==
    /\ op = "play_idx"
    /\ ~ok
    /\ plays >= 1
    /\ pre.board[arg] = "Empty"
    /\ total_moves(board) = 4 + plays
    /\ \E c \in CentreCells : board[c] # Game_new.board[c]

\* C25: play(x, y) succeeds only if (x, y) is on the board, on success the
\* cell claimed is (x, y) itself, and a pair with x >= WIDTH or y >= HEIGHT
\* leaves board and current_player as they were.
C25_PlayOnlyOnBoard ==
    op = "play" =>
        /\ ok => /\ on_board(arg[1], arg[2])
                 /\ pre.board[at_pos(arg[1], arg[2])] = "Empty"
                 /\ board[at_pos(arg[1], arg[2])] = pre.current_player
        /\ ~on_board(arg[1], arg[2]) =>
               /\ board = pre.board
               /\ current_player = pre.current_player

\* every coordinate pair is_valid_move hands to get_cell for target i, the
\* target's own included
AllReads(g, i) ==
    {<<i % WIDTH, i \div WIDTH>>}
        \cup UNION {Range(dir_reads(g, i % WIDTH, i \div WIDTH,
                                    directions[k][1], directions[k][2])) :
                       k \in 1 .. Len(directions)}

\* C26: for every board, current player and target cell on the board,
\* is_valid_move reads only cells of the board and does not fail: no step of
\* the backward walk underflows or leaves the board before the start cell is
\* reached.
C26_ScanStaysOnBoard ==
    \A g \in {Game, swap_players(Game)} :
        \A i \in Indices :
            /\ \A r \in AllReads(g, i) :
                   /\ r[1] \in 0 .. WIDTH - 1
                   /\ r[2] \in 0 .. HEIGHT - 1
            /\ g.board[i] = "Empty" =>
                   Panic \notin Range(tiles_to_flip(g, i % WIDTH, i \div WIDTH, 1))

C26_Witness ==
    /\ op = "play_idx"
    /\ ok
    /\ arg = at_pos(0, 0)
    /\ Len(ret) >= 2
    /\ Panic \notin Range(ret)
    /\ \E d \in Dirs8, n \in 1 .. WIDTH - 1 : RunToEdge(pre, arg, d, n)
    /\ \E r \in AllReads(pre, arg) : r[1] = WIDTH - 1 \/ r[2] = HEIGHT - 1

(***************************************************************************)
(* main.rs: the names of the squares.  A string is a sequence of           *)
(* one-character strings, as in the text format above.                     *)
(***************************************************************************)
\* char::to_ascii_lowercase on the letters the match below tells apart
to_ascii_lowercase(c) ==
    CASE c = "A" -> "a" [] c = "B" -> "b" [] c = "C" -> "c" [] c = "D" -> "d"
      [] c = "E" -> "e" [] c = "F" -> "f" [] c = "G" -> "g" [] c = "H" -> "h"
      [] OTHER -> c

\* `let col: u8 = match letter { ... }`
match_col(letter) ==
    CASE letter = "a" -> 0 [] letter = "b" -> 1 [] letter = "c" -> 2
      [] letter = "d" -> 3 [] letter = "e" -> 4 [] letter = "f" -> 5
      [] letter = "g" -> 6 [] letter = "h" -> 7 [] OTHER -> 42

\* `let row: u8 = match num { ... }`
match_row(num) ==
    CASE num = "1" -> 0 [] num = "2" -> 1 [] num = "3" -> 2 [] num = "4" -> 3
      [] num = "5" -> 4 [] num = "6" -> 5 [] num = "7" -> 6 [] num = "8" -> 7
      [] OTHER -> 42

\* convert_2d(s): the first character gives the column, the second the row.
\* On a letter a-h and a digit 1-8 the u8 product and sum stay below 64.
convert_2d(s) == match_row(s[2]) * 8 + match_col(to_ascii_lowercase(s[1]))

\* `match val.floor() as u8 { ... }` of convert_num
match_letter(val) ==
    CASE val = 0 -> <<"A">> [] val = 1 -> <<"B">> [] val = 2 -> <<"C">>
      [] val = 3 -> <<"D">> [] val = 4 -> <<"E">> [] val = 5 -> <<"F">>
      [] val = 6 -> <<"G">> [] val = 7 -> <<"H">>
      [] OTHER -> <<"E", "R", "R">>

\* what `{}` writes for a u8 between 1 and 8, the values of num % 8 + 1
fmt_digit(n) == <<<<"1", "2", "3", "4", "5", "6", "7", "8">>[n]>>

\* convert_num(num): the letter is taken from num / 8, the digit from num % 8
convert_num(num) == match_letter(num \div 8) \o fmt_digit((num % 8) + 1)

\* the two-character inputs that main's pattern ([aA-hH][1-8]) lets through
LetterChars ==
    {"A", "B", "C", "D", "E", "F", "G", "H",
     "a", "b", "c", "d", "e", "f", "g", "h"}

DigitChars == {"1", "2", "3", "4", "5", "6", "7", "8"}

SquareInputs == {<<l, d>> : l \in LetterChars, d \in DigitChars}

\* a value to convert: a square name typed by the player (op = "name") or a
\* position of the board (op = "position"); ret is the value at hand, pre the
\* value before the last conversion and arg the value before the last two,
\* both as an Option
InitConvert ==
    /\ board = Game_new.board
    /\ current_player = Game_new.current_player
    /\ arg = None
    /\ ok = TRUE
    /\ pre = None
    /\ plays = 0
    /\ \/ op = "name" /\ ret \in SquareInputs
       \/ op = "position" /\ ret \in Indices

\* convert_2d(&ret)
Convert2d ==
    /\ op \in {"name", "convert_num"}
    /\ ret' = convert_2d(ret)
    /\ op' = "convert_2d"
    /\ pre' = Some(ret)
    /\ arg' = pre
    /\ UNCHANGED <<board, current_player, ok, plays>>

\* convert_num(ret)
ConvertNum ==
    /\ op \in {"position", "convert_2d"}
    /\ ret' = convert_num(ret)
    /\ op' = "convert_num"
    /\ pre' = Some(ret)
    /\ arg' = pre
    /\ UNCHANGED <<board, current_player, ok, plays>>

NextConvert == Convert2d \/ ConvertNum

ConvertSpec == InitConvert /\ [][NextConvert]_vars

\* the square names [A-H][1-8]
SquareNames ==
    {<<l, d>> : l \in {"A", "B", "C", "D", "E", "F", "G", "H"}, d \in DigitChars}

\* C23: convert_num is the inverse of convert_2d: a square name converted to
\* a position and back is the same name, and a position converted to a name
\* and back is the same position.
C23_ConvertNumInvertsConvert2d ==
    /\ (op = "convert_num" /\ arg.some /\ arg.val \in SquareNames)
           => ret = arg.val
    /\ (op = "convert_2d" /\ arg.some /\ arg.val \in Indices)
           => ret = arg.val

(***************************************************************************)
(* main.rs: the board of the command line game.  A Square is "Empty",      *)
(* "Player" or "Cpu"; the Vec<Square> is a function from the position to   *)
(* the Square; an IndexSet<u8> is the sequence of its elements in the      *)
(* order the set keeps them.                                               *)
(***************************************************************************)
Squares == {"Empty", "Player", "Cpu"}

IndexSet_contains(s, v) == \E k \in 1 .. Len(s) : s[k] = v

\* IndexSet::insert: a new element goes to the end, a present one stays
IndexSet_insert(s, v) == IF IndexSet_contains(s, v) THEN s ELSE Append(s, v)

\* IndexSet::remove is swap_remove: the last element takes the place of the
\* removed one
IndexSet_remove(s, v) ==
    IF ~IndexSet_contains(s, v) THEN s
    ELSE SubSeq([s EXCEPT ![CHOOSE k \in 1 .. Len(s) : s[k] = v] = s[Len(s)]],
                1, Len(s) - 1)

\* Board::new(width, height) of main.rs
Cli_Board_new(width, height) ==
    [width |-> width,
     board_size |-> width * height,
     board |-> [i \in 0 .. (width * height - 1) |->
                   IF i \in {28, 35} THEN "Player"
                   ELSE IF i \in {27, 36} THEN "Cpu"
                   ELSE "Empty"],
     perimeter |-> <<18, 19, 20, 21, 26, 29, 34, 37, 42, 43, 44, 45>>,
     player_available_actions |-> <<26, 19, 37, 44>>,
     cpu_available_actions |-> <<29, 20, 34, 43>>,
     player_turn |-> TRUE]

get_player_actions(self) == self.player_available_actions

get_cpu_actions(self) == self.cpu_available_actions

get_available_actions(self) ==
    IF self.player_turn THEN get_player_actions(self)
    ELSE get_cpu_actions(self)

is_player_turn(self) == self.player_turn

get_perimeter(self) == self.perimeter

\* u8::checked_sub
checked_sub(a, d) == IF a - d < 0 THEN None ELSE Some(a - d)

\* pos.checked_sub(d).filter(|&x| x % 8 != col)
checked_sub_off_col(pos, d, col) ==
    IF pos - d < 0 THEN None
    ELSE IF (pos - d) % 8 = col THEN None
    ELSE Some(pos - d)

\* `if position < size && position % 8 != col`
below_size_off_col(position, size, col) ==
    IF position < size /\ position % 8 # col THEN Some(position) ELSE None

\* get_new_pos(dir, pos, iter, size); with pos < 64 and iter <= 8 no u8 sum
\* or product reaches 256
get_new_pos(dir, pos, iter, size) ==
    CASE dir = 0 -> IF (pos + iter) % 8 = 0 THEN None ELSE Some(pos + iter)
      [] dir = 1 -> checked_sub_off_col(pos, iter, 7)
      [] dir = 2 -> IF pos + (iter * 8) < size THEN Some(pos + (iter * 8))
                    ELSE None
      [] dir = 3 -> checked_sub(pos, iter * 8)
      [] dir = 4 -> checked_sub_off_col(pos, iter * 8 + iter, 7)
      [] dir = 5 -> checked_sub_off_col(pos, iter * 8 - iter, 0)
      [] dir = 6 -> below_size_off_col(pos + (iter * 8) - iter, size, 7)
      [] dir = 7 -> below_size_off_col(pos + (iter * 8) + iter, size, 0)
      [] OTHER -> None

\* `for t in &tiles { self.add(*t, val); }`
add_tiles(b, tiles, val) ==
    [i \in DOMAIN b |->
        IF \E k \in 1 .. Len(tiles) : tiles[k] = i THEN val ELSE b[i]]

\* the loop of ins in one direction, from step u on.  A tile of the other
\* colour is pushed on tiles; a tile of val turns the pushed tiles and the
\* loop goes on with the next step; an Empty square or the end of the board
\* ends the loop.
RECURSIVE flip_loop(_, _, _, _, _, _, _)
flip_loop(b, size, pos, val, direction, u, tiles) ==
    LET new_pos == get_new_pos(direction, pos, u, size)
    IN  IF ~new_pos.some THEN b
        ELSE IF b[new_pos.val] # val /\ b[new_pos.val] # "Empty"
        THEN flip_loop(b, size, pos, val, direction, u + 1,
                       Append(tiles, new_pos.val))
        ELSE IF b[new_pos.val] = val
        THEN flip_loop(add_tiles(b, tiles, val), size, pos, val, direction,
                       u + 1, tiles)
        ELSE b

\* the turns of `for direction in 0..8` of ins on the directions
\* st.direction .. hi, in their order: those of the first half of the range,
\* then those of the second.  The state of the loop is the squares b and the
\* direction at hand.
RECURSIVE flip_directions(_, _, _, _, _)
flip_directions(st, size, pos, val, hi) ==
    IF st.direction > hi THEN st
    ELSE IF st.direction = hi
    THEN [b |-> flip_loop(st.b, size, pos, val, st.direction, 1, <<>>),
          direction |-> st.direction + 1]
    ELSE flip_directions(
             flip_directions(st, size, pos, val, (st.direction + hi) \div 2),
             size, pos, val, hi)

\* `if self.board.get(new_pos) == &Square::Empty { self.perimeter.insert }`
insert_if_empty(perimeter, b, new_pos) ==
    IF b[new_pos] = "Empty" THEN IndexSet_insert(perimeter, new_pos)
    ELSE perimeter

\* the three squares above: pos.checked_sub(9 - i) for i in 0..3; the state
\* of the loop is the perimeter and i
RECURSIVE perimeter_above(_, _, _)
perimeter_above(st, b, pos) ==
    IF st.i >= 3 THEN st.perimeter
    ELSE perimeter_above(
             [perimeter |-> IF checked_sub(pos, 9 - st.i).some
                            THEN insert_if_empty(st.perimeter, b,
                                                 pos - (9 - st.i))
                            ELSE st.perimeter,
              i |-> st.i + 1],
             b, pos)

\* the square before: pos.checked_sub(1)
perimeter_left(perimeter, b, pos) ==
    IF ~checked_sub(pos, 1).some THEN perimeter
    ELSE insert_if_empty(perimeter, b, pos - 1)

\* the square after: pos + 1 < self.board_size
perimeter_right(perimeter, b, pos, size) ==
    IF pos + 1 < size THEN insert_if_empty(perimeter, b, pos + 1)
    ELSE perimeter

\* the three squares below: pos + 9 - i for i in 0..3; the state of the loop
\* is the perimeter and i
RECURSIVE perimeter_below(_, _, _, _)
perimeter_below(st, b, pos, size) ==
    IF st.i >= 3 THEN st.perimeter
    ELSE perimeter_below(
             [perimeter |-> IF pos + 9 - st.i < size
                            THEN insert_if_empty(st.perimeter, b,
                                                 pos + 9 - st.i)
                            ELSE st.perimeter,
              i |-> st.i + 1],
             b, pos, size)

\* the perimeter after an insertion at pos
update_perimeter(perimeter, b, pos, size) ==
    perimeter_below(
        [perimeter |->
             perimeter_right(
                 perimeter_left(
                     perimeter_above(
                         [perimeter |-> IndexSet_remove(perimeter, pos),
                          i |-> 0],
                         b, pos),
                     b, pos),
                 b, pos, size),
         i |-> 0],
        b, pos, size)

\* the loop of check_tile_actions in one direction, from step u on, on the
\* action set of val: [actions, returned]
RECURSIVE check_loop(_, _, _, _, _, _, _, _)
check_loop(b, size, pos, val, direction, u, tiles, actions) ==
    LET new_pos == get_new_pos(direction, pos, u, size)
    IN  IF ~new_pos.some THEN [actions |-> actions, returned |-> FALSE]
        ELSE IF b[new_pos.val] # val /\ b[new_pos.val] # "Empty"
        THEN check_loop(b, size, pos, val, direction, u + 1,
                        Append(tiles, new_pos.val), actions)
        ELSE IF b[new_pos.val] = val /\ tiles # <<>>
        THEN [actions |-> IndexSet_insert(actions, pos), returned |-> TRUE]
        ELSE [actions |-> IndexSet_remove(actions, pos), returned |-> FALSE]

\* one turn of `for direction in 0..8` of check_tile_actions: the state of
\* the loop is the action set, whether the function has returned, and the
\* direction at hand
check_direction(st, b, size, pos, val) ==
    [actions |-> check_loop(b, size, pos, val, st.direction, 1, <<>>,
                            st.actions).actions,
     returned |-> check_loop(b, size, pos, val, st.direction, 1, <<>>,
                             st.actions).returned,
     direction |-> st.direction + 1]

\* the turns of `for direction in 0..8` of check_tile_actions on the
\* directions st.direction .. hi, in their order, up to the `return`: those
\* of the first half of the range, then those of the second
RECURSIVE check_directions(_, _, _, _, _, _)
check_directions(st, b, size, pos, val, hi) ==
    IF st.returned \/ st.direction > hi THEN st
    ELSE IF st.direction = hi THEN check_direction(st, b, size, pos, val)
    ELSE check_directions(
             check_directions(st, b, size, pos, val,
                              (st.direction + hi) \div 2),
             b, size, pos, val, hi)

\* the action set of val after self.check_tile_actions(pos, val)
check_actions(actions, b, size, pos, val) ==
    check_directions([actions |-> actions, returned |-> FALSE,
                      direction |-> 0],
                     b, size, pos, val, 7).actions

\* self.check_tile_actions(pos, val)
check_tile_actions(self, pos, val) ==
    IF val = "Player"
    THEN [self EXCEPT !.player_available_actions =
             check_actions(@, self.board, self.board_size, pos, val)]
    ELSE [self EXCEPT !.cpu_available_actions =
             check_actions(@, self.board, self.board_size, pos, val)]

\* the turns of `for tile in self.get_perimeter()` on the tiles st.k .. hi of
\* the perimeter, in their order: those of the first half of the range, then
\* those of the second.  The state of the loop is the board and the number k
\* of the tile at hand.
RECURSIVE perimeter_loop(_, _, _, _)
perimeter_loop(st, perimeter, player, hi) ==
    IF st.k > hi THEN st
    ELSE IF st.k = hi
    THEN [self |-> check_tile_actions(st.self, perimeter[st.k], player),
          k |-> st.k + 1]
    ELSE perimeter_loop(
             perimeter_loop(st, perimeter, player, (st.k + hi) \div 2),
             perimeter, player, hi)

\* `for tile in self.get_perimeter() { self.check_tile_actions(tile, player) }`
check_perimeter(self, perimeter, player) ==
    perimeter_loop([self |-> self, k |-> 1], perimeter, player,
                   Len(perimeter)).self

\* ins: the tile is written and the tiles of the eight directions are turned
ins_flips(self, pos, val) ==
    [self EXCEPT !.board =
        flip_directions([b |-> [@ EXCEPT ![pos] = val], direction |-> 0],
                        self.board_size, pos, val, 7).b]

\* ins: the perimeter loses pos and gains its empty neighbours
ins_perimeter(self, pos) ==
    [self EXCEPT !.perimeter =
        update_perimeter(@, self.board, pos, self.board_size)]

\* ins: pos leaves both action sets
ins_remove(self, pos) ==
    [self EXCEPT !.player_available_actions = IndexSet_remove(@, pos),
                 !.cpu_available_actions = IndexSet_remove(@, pos)]

\* ins: `for player in &[Square::Player, Square::Cpu]`
ins_actions(self) ==
    check_perimeter(check_perimeter(self, get_perimeter(self), "Player"),
                    get_perimeter(self), "Cpu")

\* ins: the turn alternates
ins_turn(self) == [self EXCEPT !.player_turn = ~@]

\* self.ins(pos, val): a pos that is not an available action of the side to
\* move leaves the board as it is
ins(self, pos, val) ==
    IF ~IndexSet_contains(get_available_actions(self), pos) THEN self
    ELSE ins_turn(ins_actions(ins_remove(ins_perimeter(
             ins_flips(self, pos, val), pos), pos)))

\* get_score: (count_player, count_cpu)
get_score(self) ==
    <<Cardinality({i \in 0 .. 63 : self.board[i] = "Player"}),
      Cardinality({i \in 0 .. 63 : self.board[i] = "Cpu"})>>

\* `match player_score.cmp(&cpu_score)`
cmp_state(score) ==
    IF score[1] > score[2] THEN 1 ELSE IF score[1] < score[2] THEN 2 ELSE 3

\* check_game_state ending the game only when neither side has an action
check_game_state_both(self) ==
    IF get_cpu_actions(self) = <<>> /\ get_player_actions(self) = <<>>
    THEN cmp_state(get_score(self))
    ELSE 0

\* check_game_state: 0 while both sides have an action
check_game_state(self) ==
    IF get_cpu_actions(self) = <<>> \/ get_player_actions(self) = <<>>
    THEN cmp_state(get_score(self))
    ELSE 0

\* the turns of `for action in actions` of get_max_tile on the actions
\* st.k .. hi, in their order: those of the first half of the range, then
\* those of the second.  The state of the loop is best_pos and the number k
\* of the action at hand; best_score is never assigned.
RECURSIVE max_tile_loop(_, _, _, _, _)
max_tile_loop(st, b, actions, best_score, hi) ==
    IF st.k > hi THEN st
    ELSE IF st.k = hi
    THEN [best_pos |->
              IF get_score(ins(b, actions[st.k], "Cpu"))[2] > best_score
              THEN actions[st.k]
              ELSE st.best_pos,
          k |-> st.k + 1]
    ELSE max_tile_loop(
             max_tile_loop(st, b, actions, best_score, (st.k + hi) \div 2),
             b, actions, best_score, hi)

\* get_max_tile(b)
get_max_tile(b) ==
    IF get_available_actions(b) = <<>> THEN 99
    ELSE max_tile_loop([best_pos |-> 0, k |-> 1], b,
                       get_available_actions(b), get_score(b)[2],
                       Len(get_available_actions(b))).best_pos

\* the Square main hands to ins: Square::Player when board.is_player_turn(),
\* Square::Cpu otherwise
turn_square(self) == IF is_player_turn(self) THEN "Player" ELSE "Cpu"

(***************************************************************************)
(* The command line game: board is main's `board`, current_player the      *)
(* Square of the side to move.  A behaviour starts on Board::new(8, 8);    *)
(* while op is "opening" the game loop inserts the positions of one of the *)
(* Openings, kept in ret, and then goes on with up to MaxIns insertions:   *)
(* the player may type any square, the CPU's monte_carlo_tree_search       *)
(* returns one of its available actions.  get_max_tile is called as        *)
(* random_playout calls it.                                                *)
(***************************************************************************)
\* the start, five moves of an opening, and 45 moves of a game
Openings ==
    {<<>>,
     <<26, 18, 37, 29, 20>>,
     <<37, 43, 26, 29, 44, 19, 21, 30, 50, 12, 20, 45, 38, 53, 14, 47, 4, 7,
       11, 10, 52, 57, 34, 51, 31, 5, 22, 39, 1, 33, 55, 9, 6, 23, 18, 63,
       25, 24, 2, 3, 0, 17, 42, 49, 13>>}

\* main before the first turn of the game loop, with the positions lines
\* offers for the opening
InitMain(lines) ==
    /\ board = Cli_Board_new(8, 8)
    /\ current_player = turn_square(board)
    /\ op = "opening"
    /\ arg = NoArg
    /\ ok = TRUE
    /\ ret \in lines
    /\ pre = board
    /\ plays = 0

InitCli == InitMain(Openings)

\* the opening is over when its last position has been inserted
opening_done == IF op = "opening" THEN ret = <<>> ELSE TRUE

\* one turn of main's loop in the opening: the next position of the opening
\* is inserted for the side to move
Opening ==
    /\ ~opening_done
    /\ check_game_state(board) = 0
    /\ board' = ins(board, Head(ret), current_player)
    /\ current_player' = turn_square(board')
    /\ ret' = Tail(ret)
    /\ pre' = board
    /\ UNCHANGED <<op, arg, ok, plays>>

\* one turn of main's loop: board.ins(pos, current_player); ok tells whether
\* pos was an available action
Ins(pos) ==
    /\ opening_done
    /\ plays < MaxIns
    /\ check_game_state(board) = 0
    /\ is_player_turn(board)
           \/ IndexSet_contains(get_available_actions(board), pos)
    /\ board' = ins(board, pos, current_player)
    /\ current_player' = turn_square(board')
    /\ op' = "ins"
    /\ arg' = pos
    /\ ok' = IndexSet_contains(get_available_actions(board), pos)
    /\ ret' = <<>>
    /\ pre' = board
    /\ plays' = IF ok' THEN plays + 1 ELSE plays

\* get_max_tile(&board) on the CPU's turn of an unfinished game
GetMaxTile ==
    /\ opening_done
    /\ ~is_player_turn(board)
    /\ check_game_state(board) = 0
    /\ ret' = get_max_tile(board)
    /\ op' = "get_max_tile"
    /\ arg' = NoArg
    /\ ok' = TRUE
    /\ pre' = board
    /\ UNCHANGED <<board, current_player, plays>>

NextCli ==
    \/ Opening
    \/ \E pos \in 0 .. 63 : Ins(pos)
    \/ GetMaxTile

CliSpec == InitCli /\ [][NextCli]_vars

(***************************************************************************)
(* random_playout(b, diff): board is the playout board b, arg is diff, op  *)
(* is "random_playout" while the loop runs and "return" after it, ret is   *)
(* the value returned, pre the board random_playout was called on and      *)
(* plays the number of turns the loop has made.  The playouts start on     *)
(* boards main's game loop reaches late in a game: the behaviour starts on *)
(* Board::new(8, 8) and the game loop inserts the positions of one of the  *)
(* PlayoutStarts before monte_carlo_tree_search calls random_playout.      *)
(***************************************************************************)
\* the first 53 moves of four games, after which it is the CPU's turn
PlayoutStarts ==
    {<<37, 43, 26, 29, 44, 19, 21, 30, 50, 12, 20, 45, 38, 53, 14, 47, 4, 7,
       11, 10, 52, 57, 34, 51, 31, 5, 22, 39, 1, 33, 55, 9, 6, 23, 18, 63,
       25, 24, 2, 3, 0, 17, 42, 49, 13, 8, 61, 59, 54, 41, 48, 56, 16>>,
     <<37, 43, 26, 29, 44, 19, 21, 30, 50, 12, 20, 45, 38, 53, 14, 47, 4, 7,
       11, 10, 52, 57, 34, 51, 31, 5, 22, 39, 1, 33, 55, 9, 6, 23, 18, 63,
       25, 24, 2, 3, 0, 17, 42, 49, 13, 8, 59, 41, 32, 48, 62, 54, 40>>,
     <<44, 45, 46, 34, 42, 54, 33, 43, 62, 25, 17, 32, 26, 20, 41, 24, 19,
       9, 21, 52, 37, 11, 50, 40, 18, 47, 0, 30, 48, 10, 12, 2, 38, 1, 3,
       63, 16, 31, 22, 8, 59, 57, 58, 23, 14, 4, 13, 56, 5, 55, 51, 53, 61>>,
     <<37, 45, 19, 34, 33, 29, 38, 26, 20, 30, 53, 13, 21, 12, 31, 39, 14,
       44, 18, 15, 3, 41, 46, 4, 49, 10, 5, 55, 54, 17, 8, 47, 22, 48, 42,
       24, 23, 6, 11, 50, 56, 63, 16, 61, 25, 43, 62, 32, 60, 9, 7, 57,
       40>>}

\* the difficulties main lets through
Difficulties == {"1", "2"}

\* the HARD branch: `if new_val == 99 { continue; }`, else b.ins(new_val, Cpu)
hard_turn(b, new_val) == IF new_val = 99 THEN b ELSE ins(b, new_val, "Cpu")

\* the CPU's turn of the loop: a random action, the max tile action, or
\* nothing but an error message for any other diff
cpu_turn(b, diff, rand_index) ==
    CASE diff = "1" -> ins(b, get_cpu_actions(b)[rand_index + 1], "Cpu")
      [] diff = "2" -> hard_turn(b, get_max_tile(b))
      [] OTHER -> b

\* the player's turn of the loop: a random action
player_turn(b, rand_index) ==
    ins(b, get_player_actions(b)[rand_index + 1], "Player")

\* one turn of the loop when check_game_state is 0
playout_turn(b, diff, rand_index) ==
    IF ~b.player_turn THEN cpu_turn(b, diff, rand_index)
    ELSE player_turn(b, rand_index)

\* `_ => return 42`
playout_return(state) == IF state \in {1, 2, 3} THEN state ELSE 42

InitPlayout == InitMain(PlayoutStarts)

\* monte_carlo_tree_search, which main calls on the CPU's turn of an
\* unfinished game, calls random_playout(b, diff) on a clone of main's board
RandomPlayout(diff) ==
    /\ op = "opening"
    /\ opening_done
    /\ check_game_state(board) = 0
    /\ ~is_player_turn(board)
    /\ op' = "random_playout"
    /\ arg' = diff
    /\ pre' = board
    /\ plays' = 0
    /\ UNCHANGED <<board, current_player, ok, ret>>

\* a turn of the loop with check_game_state 0; rand_index is what
\* gen_range(0..actions_size) gives, which panics on an empty range.  A loop
\* that still runs after SIZE turns is not followed further.
PlayoutTurn(rand_index) ==
    /\ op = "random_playout"
    /\ plays < SIZE
    /\ check_game_state(board) = 0
    /\ rand_index < Len(get_available_actions(board))
    /\ board' = playout_turn(board, arg, rand_index)
    /\ current_player' = turn_square(board')
    /\ plays' = plays + 1
    /\ UNCHANGED <<op, arg, ok, ret, pre>>

\* a turn of the loop with check_game_state 1, 2 or 3
PlayoutReturn ==
    /\ op = "random_playout"
    /\ check_game_state(board) # 0
    /\ op' = "return"
    /\ ret' = playout_return(check_game_state(board))
    /\ UNCHANGED <<board, current_player, arg, ok, pre, plays>>

NextPlayout ==
    \/ Opening
    \/ \E diff \in Difficulties : RandomPlayout(diff)
    \/ \E rand_index \in 0 .. 63 : PlayoutTurn(rand_index)
    \/ PlayoutReturn

PlayoutSpec == InitPlayout /\ [][NextPlayout]_vars

(***************************************************************************)
(* Properties of the command line game.                                    *)
(***************************************************************************)
\* the Cell of the rules engine for a Square: the Player's tiles as One
SquareCell(sq) ==
    IF sq = "Player" THEN "One" ELSE IF sq = "Cpu" THEN "Two" ELSE "Empty"

\* the Game of the rules engine with the tiles of the board and val to move
AsGame(self, val) ==
    [board |-> [i \in Indices |-> SquareCell(self.board[i])],
     current_player |-> SquareCell(val)]

\* C21: an accepted ins leaves the tiles that play_idx of the rules engine
\* leaves when the same move is made on the same tiles: the target and the
\* flip set are turned and nothing else, so the two boards stay equal move
\* after move.
C21_InsFlipsAsTheRulesEngine ==
    (op = "ins" /\ ok) =>
        AsGame(board, "Player").board
            = play_idx(AsGame(pre, turn_square(pre)), arg).game.board

\* the CPU score after inserting action a
ScoreAfter(self, a) == get_score(ins(self, a, "Cpu"))[2]

\* C22: get_max_tile returns an available action whose insertion gives the
\* highest CPU score among all available actions.
C22_MaxTileIsBest ==
    op = "get_max_tile" =>
        /\ IndexSet_contains(get_available_actions(pre), ret)
        /\ \A a \in Range(get_available_actions(pre)) :
               ScoreAfter(pre, ret) >= ScoreAfter(pre, a)

\* the legal moves of val on the board: the empty squares with a flip set
LegalActions(self, val) ==
    {i \in Indices :
        self.board[i] = "Empty" /\ FlipSet(AsGame(self, val), i) # {}}

\* C27: after any sequence of ins calls the two action sets are exactly the
\* legal moves of Player and of Cpu on the board.
C27_ActionSetsAreTheLegalMoves ==
    /\ Range(board.player_available_actions) = LegalActions(board, "Player")
    /\ Range(board.cpu_available_actions) = LegalActions(board, "Cpu")

\* the number of tiles on the board
Tiles(self) == Cardinality({i \in Indices : self.board[i] # "Empty"})

\* C28: random_playout with difficulty "1" or "2" terminates and returns 1,
\* 2 or 3.  While the loop runs every turn made so far has placed one new
\* tile, so the loop makes at most as many turns as the board has empty
\* squares; a turn that does not return has an action to choose, which ins
\* accepts; and what the loop returns is 1, 2 or 3.
C28_PlayoutTerminates ==
    /\ op \in {"random_playout", "return"}
           => Tiles(board) = Tiles(pre) + plays
    /\ (op = "random_playout" /\ check_game_state(board) = 0)
           => get_available_actions(board) # <<>>
    /\ op = "return" => ret \in {1, 2, 3}

\* a playout of difficulty "2" has returned after placing tiles for both
\* sides, the CPU's through get_max_tile
C28_Witness ==
    /\ op = "return"
    /\ ret \in {1, 2, 3}
    /\ arg = "2"
    /\ plays >= 3

====
